---- MODULE Spec2Model ----
(***************************************************************************)
(* A model of the A2ML parser of union-policy-parser (src/rust/src/        *)
(* parser.rs).  The parser is a set of nom combinator rules over a string  *)
(* slice.  A string is modelled as a sequence of characters, a character   *)
(* as a one-character TLA+ string, and a slice as a position into the one  *)
(* input: position i stands for the slice that starts at the i-th          *)
(* character, Len(s) + 1 for the empty slice at the end.                   *)
(*                                                                         *)
(* The backquote character cannot be written inside a TLA+ string: it is   *)
(* written as the token "BQ", which is one character of the input.         *)
(***************************************************************************)
EXTENDS Naturals, Sequences, FiniteSets, TLC

VARIABLES input, pieces, called, result, path, union, report, history

vars == <<input, pieces, called, result, path, union, report, history>>

\* the state of the validation side: the union whose clauses are required,
\* the ValidationReport, and the calls made on it so far
validation == <<union, report, history>>

(***************************************************************************)
(* Characters and character classes.                                       *)
(***************************************************************************)
BQ == "BQ"

\* nom multispace0 / multispace1: space, tab, carriage return, line feed
IsMultispace(c) == c \in {" ", "\t", "\r", "\n"}

\* nom space0 / space1: space and tab
IsSpace(c) == c \in {" ", "\t"}

\* char::is_whitespace, on the characters of the model's alphabet: the form
\* feed is white space for str::trim and is none for multispace0
IsWhitespace(c) == c \in {" ", "\t", "\r", "\n", "\f"}

\* char::is_numeric, on the characters of the model's alphabet
IsNumeric(c) == c \in {"0", "1", "2", "3", "4", "5", "6", "7", "8", "9"}

IsHash(c) == c = "#"

(***************************************************************************)
(* String helpers of the standard library, as the code uses them.          *)
(***************************************************************************)
Min(S) == CHOOSE x \in S : \A y \in S : x <= y

Max(S) == CHOOSE x \in S : \A y \in S : x >= y

\* the slice s[i..] starts with the literal lit (str::starts_with, nom tag)
StartsWith(s, i, lit) ==
    /\ i + Len(lit) - 1 <= Len(s)
    /\ \A k \in 1..Len(lit) : s[i + k - 1] = lit[k]

\* str::find(pattern) on s[i..]: the first position at or after i where lit
\* starts, 0 when there is none
Find(s, i, lit) ==
    LET J == {j \in i..(Len(s) + 1) : StartsWith(s, j, lit)}
    IN  IF J = {} THEN 0 ELSE Min(J)

\* str::contains
Contains(t, lit) == Find(t, 1, lit) # 0

\* first position at or after i whose character does not satisfy P
\* (Len(s) + 1 when every remaining character satisfies it)
SkipWhile(s, i, P(_)) ==
    LET J == {j \in i..Len(s) : ~P(s[j])}
    IN  IF J = {} THEN Len(s) + 1 ELSE Min(J)

\* str::trim: strip leading and trailing whitespace
trim(t) ==
    LET K == {k \in 1..Len(t) : ~IsWhitespace(t[k])}
    IN  IF K = {} THEN <<>> ELSE SubSeq(t, Min(K), Max(K))

\* Option<T>
None == <<>>

Some(x) == <<x>>

(***************************************************************************)
(* IResult: Ok((rest, value)) or Err(Error(e)), e.input being the slice    *)
(* where the rule gave up.  No rule of the parser returns Err::Failure or  *)
(* Err::Incomplete (only complete-input combinators are used).             *)
(***************************************************************************)
Ok(rest, val) == [ok |-> TRUE, rest |-> rest, val |-> val]

Err(at) == [ok |-> FALSE, rest |-> at, val |-> <<>>]

\* let (input, x) = rule(input)?; ... : go on with the result of a rule
\* that succeeded, return the error of one that failed
Then(r, F(_)) == IF r.ok THEN F(r) ELSE r

\* map(rule, f)
Map(r, f(_)) == IF r.ok THEN Ok(r.rest, f(r.val)) ELSE r

\* alt((a, b)): the second rule is tried, at the same place, when the first
\* fails
OrElse(r1, r2) == IF r1.ok THEN r1 ELSE r2

\* one turn of the loop of many0 and many1: an error of the rule ends the
\* loop with what was gathered, a rule that consumed nothing is an error
Loop(r, i, acc, Again(_)) ==
    IF ~r.ok THEN Ok(i, acc)
    ELSE IF r.rest = i THEN Err(i)
    ELSE Again(r)

\* the rule without opt: its error is the error of the whole
Opt_required(r, i) == IF r.ok THEN Ok(r.rest, <<r.val>>) ELSE r

\* opt(rule): an error of the rule is None, with nothing consumed
Opt(r, i) == IF r.ok THEN Ok(r.rest, <<r.val>>) ELSE Ok(i, <<>>)

(***************************************************************************)
(* The nom primitives the rules are built from.                            *)
(***************************************************************************)
tag(lit, s, i) ==
    IF StartsWith(s, i, lit) THEN Ok(i + Len(lit), lit) ELSE Err(i)

char(c, s, i) ==
    IF i <= Len(s) /\ s[i] = c THEN Ok(i + 1, c) ELSE Err(i)

multispace0(s, i) ==
    LET j == SkipWhile(s, i, IsMultispace) IN Ok(j, SubSeq(s, i, j - 1))

space0(s, i) ==
    LET j == SkipWhile(s, i, IsSpace) IN Ok(j, SubSeq(s, i, j - 1))

space1(s, i) ==
    LET j == SkipWhile(s, i, IsSpace)
    IN  IF j = i THEN Err(i) ELSE Ok(j, SubSeq(s, i, j - 1))

take_while1(P(_), s, i) ==
    LET j == SkipWhile(s, i, P)
    IN  IF j = i THEN Err(i) ELSE Ok(j, SubSeq(s, i, j - 1))

take_until(lit, s, i) ==
    LET j == Find(s, i, lit)
    IN  IF j = 0 THEN Err(i) ELSE Ok(j, SubSeq(s, i, j - 1))

\* the end of the input taken for a line ending
line_ending_or_end(s, i) ==
    IF i > Len(s) THEN Ok(i, <<>>)
    ELSE IF StartsWith(s, i, <<"\n">>) THEN Ok(i + 1, <<"\n">>)
    ELSE IF StartsWith(s, i, <<"\r", "\n">>) THEN Ok(i + 2, <<"\r", "\n">>)
    ELSE Err(i)

\* "\n" or "\r\n"
line_ending(s, i) ==
    IF StartsWith(s, i, <<"\n">>) THEN Ok(i + 1, <<"\n">>)
    ELSE IF StartsWith(s, i, <<"\r", "\n">>) THEN Ok(i + 2, <<"\r", "\n">>)
    ELSE Err(i)

\* everything up to the first "\r" or "\n"; a "\r" that does not start
\* "\r\n" is an error; without any line ending the whole rest is taken
not_line_ending(s, i) ==
    LET J == {j \in i..Len(s) : s[j] \in {"\r", "\n"}}
    IN  IF J = {} THEN Ok(Len(s) + 1, SubSeq(s, i, Len(s)))
        ELSE LET j == Min(J)
             IN  IF s[j] = "\r" /\ ~StartsWith(s, j, <<"\r", "\n">>)
                 THEN Err(i)
                 ELSE Ok(j, SubSeq(s, i, j - 1))

(***************************************************************************)
(* Literals of the grammar.                                                *)
(***************************************************************************)
LitAbstract == <<"@", "a", "b", "s", "t", "r", "a", "c", "t", ":">>

LitRequires == <<"@", "r", "e", "q", "u", "i", "r", "e", "s", ":">>

LitRefs == <<"@", "r", "e", "f", "s", ":">>

LitEnd == <<"@", "e", "n", "d">>

LitRule == <<"-", "-", "-">>

LitFence == <<BQ, BQ, BQ>>

LitHttp == <<"h", "t", "t", "p">>

LitHttpUrl == <<"h", "t", "t", "p", ":", "/", "/">>

LitHttpsUrl == <<"h", "t", "t", "p", "s", ":", "/", "/">>

LitAttestation ==
    <<"A", "t", "t", "e", "s", "t", "a", "t", "i", "o", "n", ":">>

LitMust == <<"*", "M", "u", "s", "t", "*">>

LitShould == <<"*", "S", "h", "o", "u", "l", "d", "*">>

LitCould == <<"*", "C", "o", "u", "l", "d", "*">>

\* the clamp of heading(): hashes.len().min(6)
MaxLevel == 6

\* the length of the snippet in the ParseError message: chars().take(50)
SnippetLen == 50

(***************************************************************************)
(* reference: "[" digits "]" space0 rest-of-line line-ending, then the URL *)
(* heuristic on the trimmed rest of the line.                              *)
(***************************************************************************)
\* the closure of url_part.find: c.is_whitespace() || c == ')'
IsUrlEnd(c) == IsWhitespace(c) \/ c = ")"

IsUrlChar(c) == ~IsUrlEnd(c)

IsNotWhitespace(c) == ~IsWhitespace(c)

\* the URL ended by white space only
UrlAt_past_paren(text_str, start) ==
    SubSeq(text_str, start, SkipWhile(text_str, start, IsNotWhitespace) - 1)

\* the URL found at position start of the trimmed rest of the line
UrlAt(text_str, start) ==
    SubSeq(text_str, start, SkipWhile(text_str, start, IsUrlChar) - 1)

\* the heuristic split of the trimmed rest of a reference line, applied
\* to the position of the first "http" (0 when there is none)
SplitAt(text_str, start) ==
    IF start # 0
    THEN [text |-> trim(SubSeq(text_str, 1, start - 1)),
          url  |-> Some(UrlAt(text_str, start))]
    ELSE [text |-> text_str, url |-> None]

\* a URL looked for whenever the text holds "http"
SplitUrl_any_http(text_str) ==
    IF Contains(text_str, LitHttp)
    THEN SplitAt(text_str, Find(text_str, 1, LitHttp))
    ELSE [text |-> text_str, url |-> None]

SplitUrl(text_str) ==
    IF Contains(text_str, LitHttpUrl) \/ Contains(text_str, LitHttpsUrl)
    THEN SplitAt(text_str, Find(text_str, 1, LitHttp))
    ELSE [text |-> text_str, url |-> None]

Reference(id, split) == [id |-> id, text |-> split.text, url |-> split.url]

reference(s, i) ==
    Then(char("[", s, i), LAMBDA r1 :
    Then(take_while1(IsNumeric, s, r1.rest), LAMBDA r2 :
    Then(char("]", s, r2.rest), LAMBDA r3 :
    Then(space0(s, r3.rest), LAMBDA r4 :
    Then(not_line_ending(s, r4.rest), LAMBDA r5 :
    Then(line_ending(s, r5.rest), LAMBDA r6 :
    Ok(r6.rest, Reference(r2.val, SplitUrl(trim(r5.val))))))))))

(***************************************************************************)
(* heading: one or more "#", one or more spaces or tabs, the rest of the   *)
(* line, a line ending.                                                    *)
(***************************************************************************)
\* the level not clamped
Level_unclamped(n) == n

\* hashes.len().min(6) as u8
Level(n) == IF n < MaxLevel THEN n ELSE MaxLevel

heading(s, i) ==
    Then(take_while1(IsHash, s, i), LAMBDA r1 :
    Then(space1(s, r1.rest), LAMBDA r2 :
    Then(not_line_ending(s, r2.rest), LAMBDA r3 :
    Then(line_ending(s, r3.rest), LAMBDA r4 :
    Ok(r4.rest, [level |-> Level(Len(r1.val)), text |-> trim(r3.val)])))))

(***************************************************************************)
(* The directives.                                                         *)
(***************************************************************************)
\* an abstract without its @end taken to run to the end of the input
abstract_directive_unterminated(s, i) ==
    Then(tag(LitAbstract, s, i), LAMBDA r1 :
    Then(multispace0(s, r1.rest), LAMBDA r2 :
    Then(OrElse(take_until(LitEnd, s, r2.rest),
                Ok(Len(s) + 1, SubSeq(s, r2.rest, Len(s)))), LAMBDA r3 :
    Then(Opt(tag(LitEnd, s, r3.rest), r3.rest), LAMBDA r4 :
    Then(multispace0(s, r4.rest), LAMBDA r5 :
    Ok(r5.rest, trim(r3.val)))))))

abstract_directive(s, i) ==
    Then(tag(LitAbstract, s, i), LAMBDA r1 :
    Then(multispace0(s, r1.rest), LAMBDA r2 :
    Then(take_until(LitEnd, s, r2.rest), LAMBDA r3 :
    Then(tag(LitEnd, s, r3.rest), LAMBDA r4 :
    Then(multispace0(s, r4.rest), LAMBDA r5 :
    Ok(r5.rest, trim(r3.val)))))))

\* terminated(preceded(tuple((char('-'), space0)),
\*                     map(not_line_ending, trim)), line_ending)
requires_item(s, i) ==
    Then(char("-", s, i), LAMBDA r1 :
    Then(space0(s, r1.rest), LAMBDA r2 :
    Then(Map(not_line_ending(s, r2.rest), trim), LAMBDA r3 :
    Then(line_ending(s, r3.rest), LAMBDA r4 :
    Ok(r4.rest, r3.val)))))

\* the loop of many1 putting each item before the ones gathered
RECURSIVE many_requires_item_prepend(_, _, _)
many_requires_item_prepend(s, i, acc) ==
    Loop(requires_item(s, i), i, acc, LAMBDA r :
         many_requires_item_prepend(s, r.rest, <<r.val>> \o acc))

\* the loop of many1 after its first item
RECURSIVE many_requires_item(_, _, _)
many_requires_item(s, i, acc) ==
    Loop(requires_item(s, i), i, acc, LAMBDA r :
         many_requires_item(s, r.rest, Append(acc, r.val)))

\* many1(item): the first item must be there
many1_requires_item(s, i) ==
    Then(requires_item(s, i), LAMBDA r :
         many_requires_item(s, r.rest, <<r.val>>))

requires_directive(s, i) ==
    Then(tag(LitRequires, s, i), LAMBDA r1 :
    Then(multispace0(s, r1.rest), LAMBDA r2 :
    Then(many1_requires_item(s, r2.rest), LAMBDA r3 :
    Then(tag(LitEnd, s, r3.rest), LAMBDA r4 :
    Then(multispace0(s, r4.rest), LAMBDA r5 :
    Ok(r5.rest, r3.val))))))

RECURSIVE many_reference(_, _, _)
many_reference(s, i, acc) ==
    Loop(reference(s, i), i, acc, LAMBDA r :
         many_reference(s, r.rest, Append(acc, r.val)))

\* many0 in the place of many1: no reference is a success
many1_reference_or_none(s, i) == many_reference(s, i, <<>>)

\* many1(reference): the first reference must be there
many1_reference(s, i) ==
    Then(reference(s, i), LAMBDA r :
         many_reference(s, r.rest, <<r.val>>))

refs_directive(s, i) ==
    Then(tag(LitRefs, s, i), LAMBDA r1 :
    Then(multispace0(s, r1.rest), LAMBDA r2 :
    Then(many1_reference(s, r2.rest), LAMBDA r3 :
    Then(tag(LitEnd, s, r3.rest), LAMBDA r4 :
    Then(multispace0(s, r4.rest), LAMBDA r5 :
    Ok(r5.rest, r3.val))))))

(***************************************************************************)
(* Content blocks.  A ContentBlock is a record tagged by kind:             *)
(* Paragraph(text), BulletList(items), CodeBlock{language, code},          *)
(* HorizontalRule.  No rule produces Table.                                *)
(***************************************************************************)
Paragraph(text) == [kind |-> "Paragraph", text |-> text]

BulletList(items) == [kind |-> "BulletList", items |-> items]

CodeBlock(language, code) ==
    [kind |-> "CodeBlock", language |-> language, code |-> code]

HorizontalRule == [kind |-> "HorizontalRule"]

horizontal_rule(s, i) ==
    Then(tag(LitRule, s, i), LAMBDA r1 :
    Then(line_ending(s, r1.rest), LAMBDA r2 :
    Ok(r2.rest, HorizontalRule)))

list_item(s, i) ==
    Then(char("-", s, i), LAMBDA r1 :
    Then(space1(s, r1.rest), LAMBDA r2 :
    Then(not_line_ending(s, r2.rest), LAMBDA r3 :
    Then(line_ending(s, r3.rest), LAMBDA r4 :
    Ok(r4.rest, trim(r3.val))))))

RECURSIVE many_list_item(_, _, _)
many_list_item(s, i, acc) ==
    Loop(list_item(s, i), i, acc, LAMBDA r :
         many_list_item(s, r.rest, Append(acc, r.val)))

\* the list ended after its first item
bullet_list_first_only(s, i) ==
    Then(list_item(s, i), LAMBDA r : Ok(r.rest, BulletList(<<r.val>>)))

\* map(many1(list_item), ContentBlock::BulletList)
bullet_list(s, i) ==
    Then(list_item(s, i), LAMBDA r :
    Then(many_list_item(s, r.rest, <<r.val>>), LAMBDA items :
    Ok(items.rest, BulletList(items.val))))

\* the closing fence looked for at the start of a line only
code_block_closed_at_line_start(s, i) ==
    Then(tag(LitFence, s, i), LAMBDA r1 :
    Then(Opt(Map(not_line_ending(s, r1.rest), trim), r1.rest), LAMBDA r2 :
    Then(line_ending(s, r2.rest), LAMBDA r3 :
    Then(take_until(<<"\n">> \o LitFence, s, r3.rest), LAMBDA r4 :
    Then(tag(<<"\n">> \o LitFence, s, r4.rest), LAMBDA r5 :
    Then(Opt(line_ending(s, r5.rest), r5.rest), LAMBDA r6 :
    Ok(r6.rest, CodeBlock(r2.val, r4.val \o <<"\n">>))))))))

\* the language absent when no tag follows the fence
code_block_tag_or_none(s, i) ==
    Then(tag(LitFence, s, i), LAMBDA r1 :
    Then(Opt(Map(not_line_ending(s, r1.rest), trim), r1.rest), LAMBDA r2 :
    Then(line_ending(s, r2.rest), LAMBDA r3 :
    Then(take_until(LitFence, s, r3.rest), LAMBDA r4 :
    Then(tag(LitFence, s, r4.rest), LAMBDA r5 :
    Then(Opt(line_ending(s, r5.rest), r5.rest), LAMBDA r6 :
    Ok(r6.rest, CodeBlock(IF r2.val = Some(<<>>) THEN None ELSE r2.val,
                          r4.val))))))))

code_block(s, i) ==
    Then(tag(LitFence, s, i), LAMBDA r1 :
    Then(Opt(Map(not_line_ending(s, r1.rest), trim), r1.rest), LAMBDA r2 :
    Then(line_ending(s, r2.rest), LAMBDA r3 :
    Then(take_until(LitFence, s, r3.rest), LAMBDA r4 :
    Then(tag(LitFence, s, r4.rest), LAMBDA r5 :
    Then(Opt(line_ending(s, r5.rest), r5.rest), LAMBDA r6 :
    Ok(r6.rest, CodeBlock(r2.val, r4.val))))))))

\* the test for a horizontal rule left out
is_paragraph_line_no_rule(s, i) ==
    IF i > Len(s) THEN FALSE
    ELSE IF s[i] = "#" THEN FALSE
    ELSE IF StartsWith(s, i, LitFence) THEN FALSE
    ELSE IF StartsWith(s, i, <<"@">>) THEN FALSE
    ELSE IF StartsWith(s, i, <<"-", " ">>) THEN FALSE
    ELSE TRUE

\* the test for a list item left out
is_paragraph_line_no_item(s, i) ==
    IF i > Len(s) THEN FALSE
    ELSE IF s[i] = "#" THEN FALSE
    ELSE IF StartsWith(s, i, LitRule) THEN FALSE
    ELSE IF StartsWith(s, i, LitFence) THEN FALSE
    ELSE IF StartsWith(s, i, <<"@">>) THEN FALSE
    ELSE TRUE

\* a blank line taken for the end of the paragraph
is_paragraph_line_no_blank(s, i) ==
    IF i > Len(s) THEN FALSE
    ELSE IF s[i] = "\n" THEN FALSE
    ELSE IF s[i] = "#" THEN FALSE
    ELSE IF StartsWith(s, i, LitRule) THEN FALSE
    ELSE IF StartsWith(s, i, LitFence) THEN FALSE
    ELSE IF StartsWith(s, i, <<"@">>) THEN FALSE
    ELSE IF StartsWith(s, i, <<"-", " ">>) THEN FALSE
    ELSE TRUE

is_paragraph_line(s, i) ==
    IF i > Len(s) THEN FALSE
    ELSE IF s[i] = "#" THEN FALSE
    ELSE IF StartsWith(s, i, LitRule) THEN FALSE
    ELSE IF StartsWith(s, i, LitFence) THEN FALSE
    ELSE IF StartsWith(s, i, <<"@">>) THEN FALSE
    ELSE IF StartsWith(s, i, <<"-", " ">>) THEN FALSE
    ELSE TRUE

paragraph_line(s, i) ==
    IF ~is_paragraph_line(s, i) THEN Err(i) ELSE not_line_ending(s, i)

\* the line looked at and not taken
paragraph_line_nl_peek(s, i) ==
    Then(paragraph_line(s, i), LAMBDA r1 :
    Then(line_ending(s, r1.rest), LAMBDA r2 :
    Ok(i, r1.val)))

\* terminated(paragraph_line, line_ending)
paragraph_line_nl(s, i) ==
    Then(paragraph_line(s, i), LAMBDA r1 :
    Then(line_ending(s, r1.rest), LAMBDA r2 :
    Ok(r2.rest, r1.val)))

RECURSIVE many_paragraph_line(_, _, _)
many_paragraph_line(s, i, acc) ==
    Loop(paragraph_line_nl(s, i), i, acc, LAMBDA r :
         many_paragraph_line(s, r.rest, Append(acc, r.val)))

\* lines.join("\n")
RECURSIVE join(_)
join(lines) ==
    IF Len(lines) = 0 THEN <<>>
    ELSE IF Len(lines) = 1 THEN lines[1]
    ELSE lines[1] \o <<"\n">> \o join(Tail(lines))

\* the check for an empty paragraph left out
NonEmptyParagraph_unchecked(rest, text) == Ok(rest, Paragraph(text))

\* the end of paragraph(): an empty paragraph is an error, not a block
NonEmptyParagraph(rest, text) ==
    IF text = <<>> THEN Err(rest) ELSE Ok(rest, Paragraph(text))

paragraph(s, i) ==
    Then(paragraph_line_nl(s, i), LAMBDA r :
    Then(many_paragraph_line(s, r.rest, <<r.val>>), LAMBDA lines :
    NonEmptyParagraph(lines.rest, trim(join(lines.val)))))

\* the second rule tried where the first one gave up
OrElseAt(r, F(_)) == IF r.ok THEN r ELSE F(r.rest)

\* each alternative tried where the one before it gave up
content_block_no_backtrack(s, i) ==
    OrElseAt(horizontal_rule(s, i), LAMBDA a :
    OrElseAt(bullet_list(s, a), LAMBDA b :
    OrElseAt(code_block(s, b), LAMBDA c :
             paragraph(s, c))))

\* alt((horizontal_rule, bullet_list, code_block, paragraph))
content_block(s, i) ==
    OrElse(horizontal_rule(s, i),
    OrElse(bullet_list(s, i),
    OrElse(code_block(s, i),
           paragraph(s, i))))

(***************************************************************************)
(* Attestations: a keyword search over the Paragraph blocks of a section.  *)
(***************************************************************************)
\* what follows position a of text, up to the next "Attestation:" or the end
UpToNext(text, a, b) == SubSeq(text, a, IF b = 0 THEN Len(text) ELSE b - 1)

After(text, a) == UpToNext(text, a, Find(text, a, LitAttestation))

\* text.split("Attestation:") [1]: what follows the first occurrence, up to
\* the next occurrence or the end
SecondPart(text) ==
    After(text, Find(text, 1, LitAttestation) + Len(LitAttestation))

StripCr(line) ==
    IF Len(line) > 0 /\ line[Len(line)] = "\r"
    THEN SubSeq(line, 1, Len(line) - 1)
    ELSE line

LineUpTo(text, j) == StripCr(IF j = 0 THEN text ELSE SubSeq(text, 1, j - 1))

\* the whole text of the paragraph taken for the claim
FirstLine_whole_text(text) == text

\* text.lines().next().unwrap_or(""): up to the first "\n", less one
\* trailing "\r"
FirstLine(text) == LineUpTo(text, Find(text, 1, <<"\n">>))

\* t without the "**" that closes a keyword in bold
Unbold(t) ==
    IF StartsWith(t, 1, <<"*", "*">>) THEN trim(SubSeq(t, 3, Len(t))) ELSE t

\* the "**" that closes a keyword in bold skipped before the test
Requirement_past_bold(attestation_text) ==
    IF StartsWith(Unbold(attestation_text), 1, LitMust) THEN "MUST"
    ELSE IF StartsWith(Unbold(attestation_text), 1, LitShould) THEN "SHOULD"
    ELSE IF StartsWith(Unbold(attestation_text), 1, LitCould) THEN "COULD"
    ELSE "MUST"

\* the modal word looked for anywhere in the text
Requirement_anywhere(attestation_text) ==
    IF Contains(attestation_text, LitMust) THEN "MUST"
    ELSE IF Contains(attestation_text, LitShould) THEN "SHOULD"
    ELSE IF Contains(attestation_text, LitCould) THEN "COULD"
    ELSE "MUST"

\* the requirement of an attestation, from the literal that starts the
\* trimmed text after the keyword
Requirement(attestation_text) ==
    IF StartsWith(attestation_text, 1, LitMust) THEN "MUST"
    ELSE IF StartsWith(attestation_text, 1, LitShould) THEN "SHOULD"
    ELSE IF StartsWith(attestation_text, 1, LitCould) THEN "COULD"
    ELSE "MUST"

HasAttestation(block) ==
    block.kind = "Paragraph" /\ Contains(block.text, LitAttestation)

Attestation(text) ==
    [claim       |-> FirstLine(text),
     requirement |-> Requirement(trim(SecondPart(text))),
     reference   |-> None]

AttestationsOf(found) == [k \in 1..Len(found) |-> Attestation(found[k].text)]

\* the text of a block of any kind
TextOf(block) ==
    IF block.kind = "Paragraph" THEN block.text
    ELSE IF block.kind = "BulletList" THEN join(block.items)
    ELSE IF block.kind = "CodeBlock" THEN block.code
    ELSE <<>>

AsParagraph(block) == [kind |-> "Paragraph", text |-> TextOf(block)]

\* the keyword looked for in the blocks of every kind
extract_attestations_any_block(blocks) ==
    AttestationsOf(SelectSeq([k \in 1..Len(blocks) |-> AsParagraph(blocks[k])],
                             HasAttestation))

extract_attestations(blocks) == AttestationsOf(SelectSeq(blocks, HasAttestation))

(***************************************************************************)
(* Sections and the document.                                              *)
(***************************************************************************)
\* terminated(content_block, multispace0)
content_block_ws(s, i) ==
    Then(content_block(s, i), LAMBDA b :
    Then(multispace0(s, b.rest), LAMBDA w :
    Ok(w.rest, b.val)))

\* the loop left after its first block
many0_content_block_once(s, i, acc) ==
    Loop(content_block_ws(s, i), i, acc, LAMBDA r :
         Ok(r.rest, Append(acc, r.val)))

\* many0(terminated(content_block, multispace0))
RECURSIVE many0_content_block(_, _, _)
many0_content_block(s, i, acc) ==
    Loop(content_block_ws(s, i), i, acc, LAMBDA r :
         many0_content_block(s, r.rest, Append(acc, r.val)))

\* the section given the number of the line of its heading
Section_numbered(h, blocks) ==
    [heading      |-> h.text,
     level        |-> h.level,
     content      |-> blocks,
     attestations |-> extract_attestations(blocks),
     line_number  |-> 1]

\* the Section built at the end of section(): line_number: 0, a TODO
Section(h, blocks) ==
    [heading      |-> h.text,
     level        |-> h.level,
     content      |-> blocks,
     attestations |-> extract_attestations(blocks),
     line_number  |-> 0]

section(s, i) ==
    Then(heading(s, i), LAMBDA r1 :
    Then(multispace0(s, r1.rest), LAMBDA r2 :
    Then(many0_content_block(s, r2.rest, <<>>), LAMBDA r3 :
    Ok(r3.rest, Section(r1.val, r3.val)))))

\* many0(section)
RECURSIVE many0_section(_, _, _)
many0_section(s, i, acc) ==
    Loop(section(s, i), i, acc, LAMBDA r :
         many0_section(s, r.rest, Append(acc, r.val)))

\* Option::unwrap_or_default for a Vec
unwrap_or_default(o) == IF o = None THEN <<>> ELSE o[1]

\* raw set to the whole source text instead of the slice that is left
A2mlDocument_raw_is_source(abstract, sects, refs, reqs, s, rest) ==
    [abstract_text |-> abstract,
     sections      |-> sects,
     references    |-> unwrap_or_default(refs),
     requirements  |-> unwrap_or_default(reqs),
     raw           |-> s]

\* the struct built at the end of document(): raw is input.to_string(), the
\* slice left after the last rule
A2mlDocument(abstract_text, sections, references, requirements, s, rest) ==
    [abstract_text |-> abstract_text,
     sections      |-> sections,
     references    |-> unwrap_or_default(references),
     requirements  |-> unwrap_or_default(requirements),
     raw           |-> SubSeq(s, rest, Len(s))]

document(s) ==
    Then(multispace0(s, 1), LAMBDA w1 :
    Then(Opt(abstract_directive(s, w1.rest), w1.rest), LAMBDA abstract_text :
    Then(multispace0(s, abstract_text.rest), LAMBDA w2 :
    Then(Opt(requires_directive(s, w2.rest), w2.rest), LAMBDA requirements :
    Then(multispace0(s, requirements.rest), LAMBDA w3 :
    Then(many0_section(s, w3.rest, <<>>), LAMBDA sections :
    Then(multispace0(s, sections.rest), LAMBDA w4 :
    Then(Opt(refs_directive(s, w4.rest), w4.rest), LAMBDA references :
    Then(multispace0(s, references.rest), LAMBDA w5 :
    Ok(w5.rest, A2mlDocument(abstract_text.val, sections.val, references.val,
                             requirements.val, s, w5.rest)))))))))))

\* e.input.chars().take(50)
Snippet(content, at) ==
    SubSeq(content, at, IF Len(content) < at + SnippetLen - 1
                        THEN Len(content) ELSE at + SnippetLen - 1)

\* Result<A2mlDocument>: Ok(doc), or Err(PolicyError::ParseError(msg)) whose
\* message ends with the first 50 characters of the slice where parsing
\* gave up
ToResult(content, r) ==
    IF r.ok
    THEN [ok |-> TRUE, doc |-> r.val]
    ELSE [ok |-> FALSE, error |-> "ParseError", at |-> Snippet(content, r.rest)]

parse_a2ml_string(content) == ToResult(content, document(content))

(***************************************************************************)
(* parse_a2ml_file and the files it may be given: one that holds the       *)
(* input, one that does not exist, and one that exists and cannot be read  *)
(* (a directory, a file without read permission).                          *)
(***************************************************************************)
Paths == {"contract.a2ml", "missing.a2ml", "locked.a2ml"}

\* Path::exists
exists(p) == p # "missing.a2ml"

\* fs::read_to_string returns Ok
readable(p) == p = "contract.a2ml"

\* Err(PolicyError::FileNotFound(path.to_path_buf()))
FileNotFound(p) == [ok |-> FALSE, error |-> "FileNotFound", path |-> p]

\* the io::Error of read_to_string, turned into PolicyError::IoError by "?"
IoError == [ok |-> FALSE, error |-> "IoError"]

\* let content = fs::read_to_string(path)?; parse_a2ml_string(&content)
ReadAndParse(p, content) ==
    IF readable(p) THEN parse_a2ml_string(content) ELSE IoError

\* the file read without the test that it exists
parse_a2ml_file_unchecked(p, content) == ReadAndParse(p, content)

parse_a2ml_file(p, content) ==
    IF ~exists(p) THEN FileNotFound(p) ELSE ReadAndParse(p, content)

(***************************************************************************)
(* The state machine.  An input string is put together piece by piece, and *)
(* then one entry point of the parser is applied to it: parse_a2ml_string, *)
(* or one rule as the unit tests of parser.rs apply it (at the start of    *)
(* the input).  called names the entry point, result holds what it         *)
(* returned.                                                               *)
(***************************************************************************)
\* the number of pieces (lines) of a document
MaxPieces == 4

NL == <<"\n">>

NoResult == [ok |-> FALSE, rest |-> 0, val |-> <<>>]

\* no file named, no union chosen, no report made
NoPath == ""

NoUnion == "none"

NoReport == [valid |-> TRUE]

Start(inputs) ==
    /\ input \in inputs
    /\ pieces = 0
    /\ called = "none"
    /\ result = NoResult
    /\ path = NoPath
    /\ union = NoUnion
    /\ report = NoReport
    /\ history = <<>>

AppendFrom(P, max) ==
    /\ called = "none"
    /\ pieces < max
    /\ \E p \in P : input' = input \o p
    /\ pieces' = pieces + 1
    /\ UNCHANGED <<called, result, path, validation>>

Call(name, r) ==
    /\ called = "none"
    /\ called' = name
    /\ result' = r
    /\ UNCHANGED <<input, pieces, path, validation>>

ParseString == Call("parse_a2ml_string", parse_a2ml_string(input))

(***************************************************************************)
(* Spec: documents made of directive lines, a heading line, list and       *)
(* reference lines and blank lines.                                        *)
(***************************************************************************)
DocPieces ==
    { LitAbstract \o NL, LitRequires \o NL, LitRefs \o NL, LitEnd \o NL,
      <<"-", " ", "a">> \o NL, <<"[", "1", "]", " ", "r">> \o NL,
      <<"#", " ", "h">> \o NL, NL }

Init == Start({<<>>})

AppendDocPiece == AppendFrom(DocPieces, MaxPieces)

Next == AppendDocPiece \/ ParseString

Spec == Init /\ [][Next]_vars

(***************************************************************************)
(* SpecSection: documents made of a heading line and the lines of content  *)
(* blocks, a last line without its line ending among them.                 *)
(***************************************************************************)
SectionPieces ==
    { <<"#", " ", "h">> \o NL, <<"x">> \o NL, LitRule \o NL, LitFence \o NL,
      <<"-", " ", "a">> \o NL, NL, <<"\f">> \o NL, <<"x">> }

AppendSectionPiece == AppendFrom(SectionPieces, MaxPieces)

CallParagraph == Call("paragraph", paragraph(input, 1))

CallContentBlock == Call("content_block", content_block(input, 1))

NextSection ==
    \/ AppendSectionPiece
    \/ ParseString
    \/ CallParagraph
    \/ CallContentBlock

SpecSection == Init /\ [][NextSection]_vars

(***************************************************************************)
(* What the properties speak of.                                           *)
(***************************************************************************)
Parsed == called = "parse_a2ml_string"

Returned == Parsed /\ result.ok

\* the lines of s from position i on, each without its "\n"; a last line
\* without line ending is a line too
RECURSIVE LinesFrom(_, _)
LinesFrom(s, i) ==
    IF i > Len(s) THEN <<>>
    ELSE IF Find(s, i, NL) = 0 THEN <<SubSeq(s, i, Len(s))>>
    ELSE <<SubSeq(s, i, Find(s, i, NL) - 1)>> \o LinesFrom(s, Find(s, i, NL) + 1)

Lines(s) == LinesFrom(s, 1)

\* the place of the first character that is no space, tab, CR or LF
FirstText(s) == SkipWhile(s, 1, IsMultispace)

\* the blocks of all sections of a document, in order
RECURSIVE BlocksOf(_)
BlocksOf(sections) ==
    IF sections = <<>> THEN <<>>
    ELSE sections[1].content \o BlocksOf(Tail(sections))

IsParagraph(b) == b.kind = "Paragraph"

IsRule(b) == b.kind = "HorizontalRule"

\* a well-formed "@abstract: ... @end" block starts at position j of s
AbstractBlockAt(s, j) ==
    /\ StartsWith(s, j, LitAbstract)
    /\ Find(s, j + Len(LitAbstract), LitEnd) # 0

\* s begins, after white space, a directive that is malformed: an abstract
\* whose @end is never found, or a requirements or references block whose
\* body or @end is missing
MalformedDirectiveAtStart(s) ==
    \/ /\ StartsWith(s, FirstText(s), LitAbstract)
       /\ ~AbstractBlockAt(s, FirstText(s))
    \/ /\ StartsWith(s, FirstText(s), LitRequires)
       /\ ~requires_directive(s, FirstText(s)).ok
    \/ /\ StartsWith(s, FirstText(s), LitRefs)
       /\ ~refs_directive(s, FirstText(s)).ok

\* C1 (as claimed): an input that begins a malformed @abstract:, @requires:
\* or @refs: directive makes parse_a2ml_string return a ParseError and no
\* Document.
C1_MalformedDirectiveIsParseError ==
    (Parsed /\ MalformedDirectiveAtStart(input)) => ~result.ok

\* s begins with a heading line, and the first code fence of s, which opens
\* a line, is never closed
UnterminatedFenceInSection(s) ==
    /\ heading(s, FirstText(s)).ok
    /\ Find(s, 1, NL \o LitFence) # 0
    /\ Find(s, Find(s, 1, LitFence) + Len(LitFence), LitFence) = 0

\* C2 (as claimed): a section with an opening code fence that is never
\* closed makes parse_a2ml_string return a ParseError and no Document.
C2_UnterminatedFenceIsParseError ==
    (Parsed /\ UnterminatedFenceInSection(input)) => ~result.ok

\* C3 (as claimed): abstract_text is present if and only if a well-formed
\* @abstract: ... @end block occurs anywhere in the input.
C3_AbstractIffBlockAnywhere ==
    Returned =>
        (result.doc.abstract_text # None
            <=> \E j \in 1..Len(input) : AbstractBlockAt(input, j))

\* C3 (amended): abstract_text is present if and only if a well-formed
\* @abstract: ... @end block starts the input, after optional white space;
\* it then holds the trimmed body of that block.
C3_AbstractIffBlockAtStart ==
    Returned =>
        /\ result.doc.abstract_text # None
               <=> AbstractBlockAt(input, FirstText(input))
        /\ result.doc.abstract_text # None =>
               result.doc.abstract_text =
                   Some(trim(SubSeq(input, FirstText(input) + Len(LitAbstract),
                                    Find(input, FirstText(input), LitEnd) - 1)))

\* an abstract at the start of a document that goes on with a section
C3_Witness ==
    /\ Returned
    /\ result.doc.abstract_text # None
    /\ result.doc.sections # <<>>

\* the length of the prefix of the input that is not in raw
Consumed == Len(input) - Len(result.doc.raw)

HasContent(doc) ==
    \/ doc.abstract_text # None
    \/ doc.sections # <<>>
    \/ doc.references # <<>>
    \/ doc.requirements # <<>>

Count(seq, P(_)) == Cardinality({k \in 1..Len(seq) : P(seq[k])})

IsRuleLine(line) == line = LitRule

\* a line the section parser takes at a content-block position: no fence,
\* no directive, no form feed, no "#" but in a heading and no "---" but as
\* a rule
PlainLine(line) ==
    /\ ~StartsWith(line, 1, LitFence)
    /\ ~StartsWith(line, 1, <<"@">>)
    /\ ~Contains(line, <<"\f">>)
    /\ ~Contains(line, <<"\r">>)
    /\ StartsWith(line, 1, <<"#">>) => heading(line \o NL, 1).ok
    /\ StartsWith(line, 1, LitRule) => IsRuleLine(line)

\* s is a heading line followed by plain lines, each with its line ending
PlainSections(s) ==
    /\ s # <<>>
    /\ s[Len(s)] = "\n"
    /\ StartsWith(s, 1, <<"#">>)
    /\ \A k \in 1..Len(Lines(s)) : PlainLine(Lines(s)[k])

HasRuleLine(b) == IsParagraph(b) /\ Count(Lines(b.text), IsRuleLine) > 0

\* C5: a line that is exactly "---" at a content-block position of a section
\* is a HorizontalRule block and never a Paragraph or a line of one: a
\* document of headings and plain lines has as many HorizontalRule blocks
\* as it has "---" lines, no Paragraph of a Document holds a "---" line, and
\* content_block on an input that starts with such a line returns
\* HorizontalRule and consumes that line only.
C5_RuleLineIsHorizontalRule ==
    /\ Returned =>
           Count(BlocksOf(result.doc.sections), HasRuleLine) = 0
    /\ (Returned /\ PlainSections(input)) =>
           Count(BlocksOf(result.doc.sections), IsRule)
               = Count(Lines(input), IsRuleLine)
    /\ (called = "content_block" /\ StartsWith(input, 1, LitRule \o NL)) =>
           result = Ok(Len(LitRule \o NL) + 1, HorizontalRule)

\* a "---" line right after the lines of a paragraph
C5_Witness ==
    /\ Returned
    /\ PlainSections(input)
    /\ Contains(input, <<"x">> \o NL \o LitRule \o NL)
    /\ Count(BlocksOf(result.doc.sections), IsRule) > 0
    /\ Count(BlocksOf(result.doc.sections), IsParagraph) > 0

IsEmptyParagraph(b) == IsParagraph(b) /\ trim(b.text) = <<>>

\* a line of s that holds white space only
HasBlankLine(s) == Count(Lines(s), LAMBDA line : trim(line) = <<>>) > 0

\* C6: no Paragraph block of a Document has empty text after trimming, and
\* paragraph() itself never returns one: lines of white space only produce
\* no Paragraph.
C6_NoEmptyParagraph ==
    /\ Returned => Count(BlocksOf(result.doc.sections), IsEmptyParagraph) = 0
    /\ (called = "paragraph" /\ result.ok) => ~IsEmptyParagraph(result.val)

\* blank lines between a block and a paragraph that follows it
C6_Witness ==
    /\ Returned
    /\ Contains(input, NL \o NL \o <<"x">>)
    /\ Len(BlocksOf(result.doc.sections)) > 1
    /\ Count(BlocksOf(result.doc.sections), IsParagraph) > 0

(***************************************************************************)
(* SpecHeading: heading lines put together from runs of "#", blanks, text  *)
(* and line-ending characters, given to heading() and to the parser.       *)
(***************************************************************************)
\* the number of pieces of a heading line
MaxHeadingPieces == 5

HeadingPieces ==
    { <<"#">>, <<"#", "#", "#", "#", "#", "#">>, <<" ">>, <<"\t">>, <<"a">>,
      <<"\r">>, NL }

AppendHeadingPiece == AppendFrom(HeadingPieces, MaxHeadingPieces)

CallHeading == Call("heading", heading(input, 1))

NextHeading == AppendHeadingPiece \/ CallHeading \/ ParseString

SpecHeading == Init /\ [][NextHeading]_vars

IsLineBreak(c) == c \in {"\r", "\n"}

IsLineText(c) == ~IsLineBreak(c)

\* the number of "#" that start s
Hashes(s) == SkipWhile(s, 1, IsHash) - 1

\* where the text of the heading line s starts, and where it ends
TextStart(s) == SkipWhile(s, Hashes(s) + 1, IsSpace)

TextEnd(s) == SkipWhile(s, TextStart(s), IsLineText)

\* s starts with a heading line: "#"s, blanks, text, a line ending
HeadingLine(s) ==
    /\ Hashes(s) >= 1
    /\ TextStart(s) > Hashes(s) + 1
    /\ \/ StartsWith(s, TextEnd(s), NL)
       \/ StartsWith(s, TextEnd(s), <<"\r">> \o NL)

AfterLine(s, e) == IF s[e] = "\n" THEN e + 1 ELSE e + 2

\* C7: on a heading line of n "#"s heading() returns the level min(n, 6)
\* and the trimmed text, and consumes the line; every Section of a Document
\* has a level from 1 to 6.
C7_HeadingLevelClamped ==
    /\ (called = "heading" /\ HeadingLine(input)) =>
           /\ result.ok
           /\ result.rest = AfterLine(input, TextEnd(input))
           /\ result.val.level =
                  (IF Hashes(input) <= 6 THEN Hashes(input) ELSE 6)
           /\ result.val.text =
                  trim(SubSeq(input, TextStart(input), TextEnd(input) - 1))
    /\ Returned =>
           \A k \in 1..Len(result.doc.sections) :
               result.doc.sections[k].level \in 1..6
    /\ (Returned /\ HeadingLine(input)) =>
           /\ result.doc.sections # <<>>
           /\ result.doc.sections[1].level =
                  (IF Hashes(input) <= 6 THEN Hashes(input) ELSE 6)

\* a heading line of more than six "#"
C7_Witness ==
    /\ called = "heading"
    /\ HeadingLine(input)
    /\ Hashes(input) > 6
    /\ result.ok
    /\ result.val.text # <<>>

(***************************************************************************)
(* SpecRequires: requirement blocks put together from whole lines, given   *)
(* to requires_directive().                                                *)
(***************************************************************************)
RequiresPieces ==
    { LitRequires \o NL, LitEnd \o NL, <<"-", " ", "a">> \o NL,
      <<"-", " ", " ", "b", " ">> \o NL, <<"-", "c">> \o NL, <<"x">> \o NL, NL }

AppendRequiresPiece == AppendFrom(RequiresPieces, MaxPieces)

CallRequires == Call("requires_directive", requires_directive(input, 1))

NextRequires == AppendRequiresPiece \/ CallRequires

SpecRequires == Init /\ [][NextRequires]_vars

IsItemLine(line) == StartsWith(line, 1, <<"-">>)

IsOtherLine(line) == ~IsItemLine(line)

\* the number of "-" lines that follow the first line of s
Items(s) == SkipWhile(Tail(Lines(s)), 1, IsItemLine) - 1

\* s is "@requires:" on a line, one or more "-" lines and an "@end" line
RequiresBlock(s) ==
    /\ Lines(s) # <<>>
    /\ Lines(s)[1] = LitRequires
    /\ Items(s) >= 1
    /\ Len(Lines(s)) >= Items(s) + 2
    /\ StartsWith(Lines(s)[Items(s) + 2], 1, LitEnd)

\* C8: on a well-formed @requires: block of n items, requires_directive
\* returns n strings, the k-th being the trimmed text of the k-th "-" line.
C8_RequirementsInOrder ==
    (called = "requires_directive" /\ RequiresBlock(input)) =>
        /\ result.ok
        /\ result.val =
               [k \in 1..Items(input) |-> trim(Tail(Lines(input)[k + 1]))]

\* a block of two different items or more
C8_Witness ==
    /\ called = "requires_directive"
    /\ RequiresBlock(input)
    /\ result.ok
    /\ Len(result.val) >= 2
    /\ result.val[1] # result.val[2]

(***************************************************************************)
(* SpecReference: reference lines "[1] ..." and "[12]..." whose rest is    *)
(* put together from text, blanks, ")" and the parts of URLs, given to     *)
(* reference().                                                            *)
(***************************************************************************)
\* the number of pieces of the rest of a reference line
MaxReferencePieces == 5

ReferenceStarts == { <<"[", "1", "]", " ">>, <<"[", "1", "2", "]">> }

ReferencePieces ==
    { <<"a">>, <<" ">>, <<")">>, LitHttp, LitHttpUrl, LitHttpsUrl, NL }

InitReference == Start(ReferenceStarts)

AppendReferencePiece == AppendFrom(ReferencePieces, MaxReferencePieces)

CallReference == Call("reference", reference(input, 1))

NextReference == AppendReferencePiece \/ CallReference

SpecReference == InitReference /\ [][NextReference]_vars

\* the place of the "]" of a reference line "[digits]..."
Close(s) == SkipWhile(s, 2, IsNumeric)

\* where the rest of the line ends
RestEnd(s) == SkipWhile(s, Close(s) + 1, IsLineText)

\* s starts with a reference line: "[", digits, "]", the rest, a line ending
ReferenceLine(s) ==
    /\ StartsWith(s, 1, <<"[">>)
    /\ Close(s) > 2
    /\ StartsWith(s, Close(s), <<"]">>)
    /\ \/ StartsWith(s, RestEnd(s), NL)
       \/ StartsWith(s, RestEnd(s), <<"\r">> \o NL)

\* the trimmed rest of the reference line s
Rest(s) == trim(SubSeq(s, Close(s) + 1, RestEnd(s) - 1))

HasUrl(t) == Contains(t, LitHttpUrl) \/ Contains(t, LitHttpsUrl)

\* C9: on a reference line, reference() returns the digits as id, and a
\* url if and only if the trimmed rest contains "http://" or "https://";
\* without one the text is the whole trimmed rest.
C9_UrlIffScheme ==
    (called = "reference" /\ ReferenceLine(input)) =>
        /\ result.ok
        /\ result.val.id = SubSeq(input, 2, Close(input) - 1)
        /\ result.val.url # None <=> HasUrl(Rest(input))
        /\ ~HasUrl(Rest(input)) => result.val.text = Rest(input)

\* a reference without URL whose text names "http" all the same
C9_Witness ==
    /\ called = "reference"
    /\ ReferenceLine(input)
    /\ result.ok
    /\ result.val.url = None
    /\ Contains(result.val.text, LitHttp)

\* t is pre, then u, then what follows u, where u starts at the first
\* "http" of t and runs up to the next white space or ")" or the end of t
SplitsAt(t, a, b, text, u) ==
    /\ StartsWith(t, a, LitHttp)
    /\ \A j \in 1..(a - 1) : ~StartsWith(t, j, LitHttp)
    /\ u = SubSeq(t, a, b)
    /\ \A k \in a..b : ~IsWhitespace(t[k]) /\ t[k] # ")"
    /\ b = Len(t) \/ IsWhitespace(t[b + 1]) \/ t[b + 1] = ")"
    /\ text = trim(SubSeq(t, 1, a - 1))

\* C10: when the trimmed rest contains "http://" or "https://", the url
\* starts at the first "http" of the rest and ends before the next white
\* space or ")" (or at the end), and the text is the trimmed part before it.
C10_UrlFromFirstHttp ==
    (called = "reference" /\ ReferenceLine(input) /\ HasUrl(Rest(input))) =>
        /\ result.ok
        /\ result.val.url # None
        /\ \E a \in 1..Len(Rest(input)) : \E b \in a..Len(Rest(input)) :
               SplitsAt(Rest(input), a, b, result.val.text, result.val.url[1])

\* the first "http" is not the one of the URL, and text follows the url
C10_Witness ==
    /\ called = "reference"
    /\ ReferenceLine(input)
    /\ HasUrl(Rest(input))
    /\ result.ok
    /\ result.val.url # None
    /\ ~HasUrl(result.val.url[1])
    /\ Len(result.val.text) + Len(result.val.url[1]) < Len(Rest(input))

(***************************************************************************)
(* SpecAttestation: a section whose paragraphs are put together from the   *)
(* attestation keyword, plain and in bold, the three modal words, text,    *)
(* blanks and line endings; the second start has a first attestation       *)
(* paragraph already, and a rule that ends it.                             *)
(***************************************************************************)
\* the number of pieces of the paragraphs of the section
MaxAttestationPieces == 4

LitBoldAttestation == <<"*", "*">> \o LitAttestation \o <<"*", "*">>

AttestationStarts ==
    { <<"#", " ", "h">> \o NL,
      <<"#", " ", "h">> \o NL \o LitAttestation \o <<" ">> \o LitCould
          \o NL \o LitRule \o NL }

AttestationPieces ==
    { LitAttestation, LitBoldAttestation, LitMust, LitShould, LitCould,
      <<" ">>, <<"x">>, NL }

InitAttestation == Start(AttestationStarts)

AppendAttestationPiece == AppendFrom(AttestationPieces, MaxAttestationPieces)

NextAttestation == AppendAttestationPiece \/ ParseString

SpecAttestation == InitAttestation /\ [][NextAttestation]_vars

HasKeyword(b) ==
    IsParagraph(b) /\ \E j \in 1..Len(b.text) : StartsWith(b.text, j, LitAttestation)

\* all that follows the first "Attestation:" of text, trimmed
AfterKeyword(text) ==
    trim(SubSeq(text, Find(text, 1, LitAttestation) + Len(LitAttestation),
                Len(text)))

\* the requirement that the modal word at the start of t stands for
Modal(t) ==
    CASE StartsWith(t, 1, LitMust)   -> "MUST"
      [] StartsWith(t, 1, LitShould) -> "SHOULD"
      [] StartsWith(t, 1, LitCould)  -> "COULD"
      [] OTHER                       -> "MUST"

\* the attestations are those of the paragraphs found, one each, in order
AttestedBy(attestations, found) ==
    /\ Len(attestations) = Len(found)
    /\ \A j \in 1..Len(found) :
           /\ attestations[j].requirement = Modal(AfterKeyword(found[j].text))
           /\ attestations[j].requirement \in {"MUST", "SHOULD", "COULD"}

\* C11: every Paragraph block whose text contains "Attestation:" yields one
\* Attestation, in order, and no other block yields any; its requirement is
\* MUST, SHOULD or COULD as the trimmed text after the first "Attestation:"
\* starts with *Must*, *Should* or *Could*, and MUST when it starts with
\* none of them.
C11_RequirementFromModal ==
    Returned =>
        \A k \in 1..Len(result.doc.sections) :
            AttestedBy(result.doc.sections[k].attestations,
                       SelectSeq(result.doc.sections[k].content, HasKeyword))

\* a section of two attestations whose requirements differ, one paragraph
\* naming a modal word that does not follow the keyword
C11_Witness ==
    /\ Returned
    /\ Len(result.doc.sections) = 1
    /\ Len(result.doc.sections[1].attestations) = 2
    /\ result.doc.sections[1].attestations[1].requirement = "COULD"
    /\ result.doc.sections[1].attestations[2].requirement = "SHOULD"

(***************************************************************************)
(* SpecDocument: documents of all four parts, put together part by part in *)
(* the order of the grammar.  Each part is the one of the unit test        *)
(* test_parse_simple_document or a short one of the same form.             *)
(***************************************************************************)
\* the @abstract: block of test_parse_simple_document, with the blank line
\* that follows it
TestAbstract ==
    <<"@", "a", "b", "s", "t", "r", "a", "c", "t", ":", "\n", "T", "h", "i",
      "s", " ", "i", "s", " ", "a", " ", "t", "e", "s", "t", " ", "c", "o",
      "n", "t", "r", "a", "c", "t", ".", "\n", "@", "e", "n", "d", "\n",
      "\n">>

\* its @requires: block
TestRequires ==
    <<"@", "r", "e", "q", "u", "i", "r", "e", "s", ":", "\n", "-", " ", "U",
      "K", " ", "E", "m", "p", "l", "o", "y", "m", "e", "n", "t", " ", "R",
      "i", "g", "h", "t", "s", " ", "A", "c", "t", " ", "1", "9", "9", "6",
      "\n", "@", "e", "n", "d", "\n", "\n">>

\* its heading
TestHeading ==
    <<"#", "#", " ", "S", "e", "c", "t", "i", "o", "n", " ", "1", "\n",
      "\n">>

\* its first paragraph
TestParagraph ==
    <<"T", "h", "i", "s", " ", "i", "s", " ", "a", " ", "p", "a", "r", "a",
      "g", "r", "a", "p", "h", ".", "\n", "\n">>

\* its bullet list
TestList ==
    <<"-", " ", "I", "t", "e", "m", " ", "1", "\n", "-", " ", "I", "t", "e",
      "m", " ", "2", "\n", "\n">>

\* its attestation paragraph
TestAttestation ==
    <<"*", "*", "A", "t", "t", "e", "s", "t", "a", "t", "i", "o", "n", ":",
      "*", "*", " ", "*", "M", "u", "s", "t", "*", " ", "c", "o", "m", "p",
      "l", "y", " ", "w", "i", "t", "h", " ", "U", "K", " ", "l", "a", "w",
      ".", "\n", "\n">>

\* its @refs: block, and the blanks that end the raw string
TestRefs ==
    <<"@", "r", "e", "f", "s", ":", "\n", "[", "1", "]", " ", "U", "K", " ",
      "E", "m", "p", "l", "o", "y", "m", "e", "n", "t", " ", "R", "i", "g",
      "h", "t", "s", " ", "A", "c", "t", " ", "1", "9", "9", "6", "\n", "@",
      "e", "n", "d", "\n", " ", " ", " ", " ", " ", " ", " ", " ">>

\* the parts of a document, in order: the choices for each
DocumentParts ==
    << { TestAbstract, LitAbstract \o NL \o <<"a">> \o NL \o LitEnd \o NL },
       { TestRequires,
         LitRequires \o NL \o <<"-", " ", "a">> \o NL \o LitEnd \o NL },
       { TestHeading, <<"#", "#", " ", "h">> \o NL },
       { TestParagraph, <<"x">> \o NL },
       { TestList, <<"-", " ", "a">> \o NL },
       { TestAttestation,
         LitBoldAttestation \o <<" ">> \o LitMust \o <<" ", "x">> \o NL },
       { TestRefs,
         LitRefs \o NL \o <<"[", "1", "]", " ", "r">> \o NL \o LitEnd \o NL } >>

\* the raw string of the test starts with a line ending
InitDocument == Start({<<>>, NL})

AppendDocumentPart ==
    AppendFrom(DocumentParts[pieces + 1], Len(DocumentParts))

NextDocument == AppendDocumentPart \/ ParseString

SpecDocument == InitDocument /\ [][NextDocument]_vars

\* the input has all its parts
WholeDocument == pieces = Len(DocumentParts)

IsBulletList(b) == b.kind = "BulletList"

\* C13: a document of an @abstract: block, a @requires: block of one item,
\* one "##" heading with a paragraph, a bullet list and a paragraph with
\* "**Attestation:** *Must* ...", and a @refs: block of one reference
\* parses into a Document with abstract_text present, one requirement, one
\* section (of one BulletList block and one Attestation) and one reference.
C13_WholeDocumentParses ==
    (Parsed /\ WholeDocument) =>
        /\ result.ok
        /\ result.doc.abstract_text # None
        /\ Len(result.doc.requirements) = 1
        /\ Len(result.doc.sections) = 1
        /\ Count(result.doc.sections[1].content, IsBulletList) = 1
        /\ Len(result.doc.sections[1].attestations) = 1
        /\ Len(result.doc.references) = 1

\* the document of test_parse_simple_document itself
C13_Witness ==
    /\ Parsed
    /\ input = NL \o TestAbstract \o TestRequires \o TestHeading
                  \o TestParagraph \o TestList \o TestAttestation \o TestRefs
    /\ result.ok
    /\ Len(result.doc.sections) = 1
    /\ Len(result.doc.sections[1].content) = 3
    /\ result.doc.references[1].id = <<"1">>
    /\ result.doc.raw = <<>>

(***************************************************************************)
(* SpecBlocks: inputs made of a heading line, directive lines, item lines, *)
(* a reference line and a fence line, given to the parser and to the rules *)
(* content_block, section, requires_directive and refs_directive.  The     *)
(* line "-x" starts as a list item does and is a paragraph line.           *)
(***************************************************************************)
BlockPieces ==
    { <<"#", " ", "h">> \o NL, <<"-", "x">> \o NL, <<"-", " ", "a">> \o NL,
      LitFence \o NL, LitRefs \o NL, LitRequires \o NL, LitEnd \o NL,
      <<"[", "1", "]", " ", "r">> \o NL }

AppendBlockPiece == AppendFrom(BlockPieces, MaxPieces)

CallSection == Call("section", section(input, 1))

CallRefs == Call("refs_directive", refs_directive(input, 1))

NextBlocks ==
    \/ AppendBlockPiece
    \/ ParseString
    \/ CallContentBlock
    \/ CallSection
    \/ CallRequires
    \/ CallRefs

SpecBlocks == Init /\ [][NextBlocks]_vars

\* a rule was applied to the input, at its start
RuleCalled ==
    called \in {"content_block", "section", "requires_directive",
                "refs_directive"}

\* the four alternatives of content_block, each applied at position i
AlternativesAt(s, i) ==
    <<horizontal_rule(s, i), bullet_list(s, i), code_block(s, i),
      paragraph(s, i)>>

\* the place of the first result of rs that is a success, 0 without one
FirstOk(rs) ==
    IF \A k \in 1..Len(rs) : ~rs[k].ok THEN 0
    ELSE Min({k \in 1..Len(rs) : rs[k].ok})

\* r is what the first alternative that succeeds returns, or a failure when
\* none does
FirstSuccess(r, rs) ==
    IF FirstOk(rs) = 0 THEN ~r.ok ELSE r = rs[FirstOk(rs)]

EmptyDocument(s) ==
    [abstract_text |-> None, sections |-> <<>>, references |-> <<>>,
     requirements |-> <<>>, raw |-> SubSeq(s, FirstText(s), Len(s))]

\* C14: a rule that succeeds leaves a suffix of its input; content_block
\* returns what its first succeeding alternative returns when each of the
\* four is applied at the position content_block was applied at, whatever
\* the alternatives before it matched before they failed, and fails when
\* all four fail there; an optional directive that fails at the start of a
\* document consumes nothing: all of its text is left, in raw.
C14_FailureConsumesNothing ==
    /\ (RuleCalled /\ result.ok) => result.rest \in 1..(Len(input) + 1)
    /\ Returned => Len(result.doc.raw) <= Len(input)
    /\ called = "content_block" =>
           FirstSuccess(result, AlternativesAt(input, 1))
    /\ (Returned /\ MalformedDirectiveAtStart(input)) =>
           result.doc = EmptyDocument(input)

\* bullet_list matched "-" and failed, and paragraph took the line from its
\* start
C14_Witness ==
    /\ called = "content_block"
    /\ ~bullet_list(input, 1).ok
    /\ bullet_list(input, 1).rest > 1
    /\ result.ok
    /\ result.val.kind = "Paragraph"
    /\ result.val.text[1] = "-"

(***************************************************************************)
(* SpecFile: parse_a2ml_file applied to each of the paths, the file that   *)
(* can be read holding a document of directive, heading, list and          *)
(* reference lines.                                                        *)
(***************************************************************************)
CallParseFile ==
    /\ called = "none"
    /\ \E p \in Paths :
           /\ path' = p
           /\ result' = parse_a2ml_file(p, input)
    /\ called' = "parse_a2ml_file"
    /\ UNCHANGED <<input, pieces, validation>>

NextFile == AppendDocPiece \/ CallParseFile

SpecFile == Init /\ [][NextFile]_vars

FileParsed == called = "parse_a2ml_file"

\* C15: parse_a2ml_file on a path that does not exist returns FileNotFound
\* with that path and nothing of a parse; FileNotFound is returned for no
\* path that exists, a ParseError only for a file that was read and that
\* the grammar refused, and a file that was read gives what
\* parse_a2ml_string gives on its content.
C15_MissingFileIsFileNotFound ==
    FileParsed =>
        /\ ~exists(path) =>
               result = [ok |-> FALSE, error |-> "FileNotFound", path |-> path]
        /\ (~result.ok /\ result.error = "FileNotFound") => ~exists(path)
        /\ (~result.ok /\ result.error = "ParseError") =>
               /\ exists(path) /\ readable(path)
               /\ ~document(input).ok
        /\ (exists(path) /\ readable(path)) =>
               result = parse_a2ml_string(input)

\* the path that does not exist, while the file that does holds a document
C15_Witness ==
    /\ FileParsed
    /\ ~exists(path)
    /\ ~result.ok
    /\ result.error = "FileNotFound"
    /\ result.path = path
    /\ parse_a2ml_file("contract.a2ml", input).ok
    /\ HasContent(parse_a2ml_file("contract.a2ml", input).doc)

(***************************************************************************)
(* schemas.rs: the unions and the clauses each of them requires.           *)
(***************************************************************************)
Unions == {"Nuj", "Iww", "Ucu"}

\* Union::required_clauses
required_clauses(u) ==
    CASE u = "Nuj" ->
            <<"truth-accuracy", "independence", "fairness",
              "privacy-harassment", "accountability", "source-protection",
              "anti-discrimination", "no-plagiarism">>
      [] u = "Iww" ->
            <<"payment-terms", "late-payment-penalty", "collective-voice",
              "no-free-trials", "no-spec-work", "kill-fee-provision">>
      [] u = "Ucu" ->
            <<"academic-freedom", "workload-limits", "research-time",
              "teaching-load", "no-casualization">>

(***************************************************************************)
(* validator.rs: the ValidationReport and its three methods.               *)
(***************************************************************************)
ErrorKinds ==
    {"MissingClause", "InvalidValue", "UnresolvedReference", "StructureError",
     "AttestationFailure"}

ValidationError(kind, message, location) ==
    [kind |-> kind, message |-> message, location |-> location]

ValidationWarning(message, location) ==
    [message |-> message, location |-> location]

\* the ClauseCheck that Validator::validate makes for a clause
ClauseCheck(clause, present) ==
    [clause |-> clause, present |-> present, value |-> None,
     expected |-> None]

\* ValidationReport::new
new(contract_path, schema_path) ==
    [contract_path    |-> contract_path,
     schema_path      |-> schema_path,
     valid            |-> TRUE,
     errors           |-> <<>>,
     warnings         |-> <<>>,
     required_clauses |-> <<>>]

add_error(self, kind, message, location) ==
    [self EXCEPT !.valid = FALSE,
                 !.errors = Append(@, ValidationError(kind, message, location))]

add_warning(self, message, location) ==
    [self EXCEPT !.warnings = Append(@, ValidationWarning(message, location))]

\* a clause that is absent taken for no reason to change valid
ClauseValid_ignored(valid, check) == valid

\* if !check.present { self.valid = false; }
ClauseValid(valid, check) == IF ~check.present THEN FALSE ELSE valid

add_clause_check(self, check) ==
    [self EXCEPT !.valid = ClauseValid(@, check),
                 !.required_clauses = Append(@, check)]

(***************************************************************************)
(* SpecValidate: a report made by new() for the contract of one of the     *)
(* unions, and the three methods called on it in any order.  The clauses   *)
(* checked are the required clauses of the union, in their order, as       *)
(* Validator::validate checks them.  history is the list of the calls      *)
(* made, each with the value of valid it left.                             *)
(***************************************************************************)
\* the number of calls made on a report
MaxCalls == 4

InitValidate ==
    /\ input = <<>>
    /\ pieces = 0
    /\ called = "none"
    /\ result = NoResult
    /\ path = NoPath
    /\ union \in Unions
    /\ report = new("contract", "schema")
    /\ history = <<>>

\* the method op was called, with a clause that was present or not, and
\* changed the report into r
Called(op, present, r) ==
    /\ Len(history) < MaxCalls
    /\ report' = r
    /\ history' = Append(history, [op |-> op, present |-> present,
                                   valid |-> r.valid])
    /\ UNCHANGED <<input, pieces, called, result, path, union>>

AddError ==
    \E kind \in ErrorKinds :
        Called("add_error", TRUE, add_error(report, kind, "message", None))

AddWarning ==
    Called("add_warning", TRUE, add_warning(report, "message", None))

\* the clause checked next
NextClause == required_clauses(union)[Len(report.required_clauses) + 1]

AddClauseCheck ==
    /\ Len(report.required_clauses) < Len(required_clauses(union))
    /\ \E present \in BOOLEAN :
           Called("add_clause_check", present,
                  add_clause_check(report, ClauseCheck(NextClause, present)))

NextValidate == AddError \/ AddWarning \/ AddClauseCheck

SpecValidate == InitValidate /\ [][NextValidate]_vars

IsAddError(h) == h.op = "add_error"

IsAddWarning(h) == h.op = "add_warning"

IsAbsentClause(h) == h.op = "add_clause_check" /\ ~h.present

\* the value of valid before the k-th call
ValidBefore(k) == IF k = 1 THEN TRUE ELSE history[k - 1].valid

\* C16: after any calls of add_error, add_warning and add_clause_check on a
\* report made by new(), valid is true if and only if add_error was never
\* called and every clause check added was of a clause that is present; a
\* new report is valid, one add_error makes it invalid with one error,
\* errors holds one entry for each add_error, add_warning never changes
\* valid, and no call makes valid true again once it is false.
C16_ValidIffNoErrorAndAllPresent ==
    /\ report.valid <=>
           /\ Count(history, IsAddError) = 0
           /\ Count(history, IsAbsentClause) = 0
    /\ history = <<>> => report.valid
    /\ (Len(history) = 1 /\ IsAddError(history[1])) =>
           ~report.valid /\ Len(report.errors) = 1
    /\ Len(report.errors) = Count(history, IsAddError)
    /\ \A k \in 1..Len(history) :
           /\ IsAddWarning(history[k]) => history[k].valid = ValidBefore(k)
           /\ ~ValidBefore(k) => ~history[k].valid
    /\ history # <<>> => report.valid = history[Len(history)].valid

\* a report that is invalid for an absent clause alone, after a warning and
\* a clause that is present
C16_Witness ==
    /\ ~report.valid
    /\ report.errors = <<>>
    /\ report.warnings # <<>>
    /\ Len(report.required_clauses) >= 2
    /\ Count(history, IsAbsentClause) = 1

\* the sequence seq holds x
Has(seq, x) == \E k \in 1..Len(seq) : seq[k] = x

\* C17 (as claimed): the list Union::Nuj.required_clauses(), from which the
\* clauses of a NUJ report are checked, contains both "source-protection"
\* and "editorial-independence".
C17_NujRequiresBoth ==
    (union = "Nuj" /\ report.required_clauses # <<>>) =>
        /\ Has(required_clauses(union), "source-protection")
        /\ Has(required_clauses(union), "editorial-independence")

\* the input from position i on
From(s, i) == SubSeq(s, i, Len(s))

\* t starts with a code fence that no later fence closes
UnclosedFence(t) ==
    /\ StartsWith(t, 1, LitFence)
    /\ Find(t, Len(LitFence) + 1, LitFence) = 0

\* t starts with text that no content block of the vocabulary matches: a
\* "#", a directive or an unclosed fence
StopsBlocks(t) ==
    \/ StartsWith(t, 1, <<"#">>)
    \/ StartsWith(t, 1, <<"@">>)
    \/ UnclosedFence(t)

SectionCalled == called = "section"

EmptyBody(s, lit) ==
    /\ StartsWith(s, 1, lit)
    /\ StartsWith(s, SkipWhile(s, Len(lit) + 1, IsMultispace), LitEnd)

DirectiveCalled == called \in {"requires_directive", "refs_directive"}

\* C19: requires_directive and refs_directive never succeed with an empty
\* list, and each fails on its directive followed directly by "@end"; the
\* parser then returns a Document without requirements or references, the
\* block left in raw.
C19_EmptyBodyFails ==
    /\ (DirectiveCalled /\ result.ok) => Len(result.val) >= 1
    /\ (called = "requires_directive" /\ EmptyBody(input, LitRequires)) =>
           ~result.ok
    /\ (called = "refs_directive" /\ EmptyBody(input, LitRefs)) => ~result.ok
    /\ (Returned /\ (EmptyBody(input, LitRequires) \/ EmptyBody(input, LitRefs))) =>
           result.doc = EmptyDocument(input)

\* "@refs:" followed directly by "@end", given to refs_directive
C19_Witness ==
    /\ called = "refs_directive"
    /\ EmptyBody(input, LitRefs)
    /\ ~result.ok
    /\ Len(input) = Len(LitRefs \o NL \o LitEnd \o NL)

(***************************************************************************)
(* SpecCode: an opening code fence, alone or after a heading line, then    *)
(* line endings, text, heading, item, directive and rule lines and         *)
(* further fences, given to code_block() and to the parser.                *)
(***************************************************************************)
\* the number of pieces that follow the opening fence
MaxCodePieces == 4

CodeStarts == { LitFence, <<"#", " ", "h">> \o NL \o LitFence }

CodePieces ==
    { NL, <<"x">>, <<"#", " ", "h">> \o NL, <<"-", " ", "a">> \o NL,
      LitEnd \o NL, LitRule \o NL, LitFence }

InitCode == Start(CodeStarts)

AppendCodePiece == AppendFrom(CodePieces, MaxCodePieces)

CallCodeBlock == Call("code_block", code_block(input, 1))

NextCode == AppendCodePiece \/ CallCodeBlock \/ ParseString

SpecCode == InitCode /\ [][NextCode]_vars

\* where the code of the fence at position f starts: after the line ending
\* of the fence line
CodeFrom(s, f) == Find(s, f, NL) + 1

\* where the fence that closes it starts
CloseAt(s, f) == Find(s, CodeFrom(s, f), LitFence)

\* a fence line starts at position f of s, and a fence follows that line
Fenced(s, f) ==
    /\ StartsWith(s, f, LitFence)
    /\ Find(s, f, NL) # 0
    /\ CloseAt(s, f) # 0

\* the text between the fence line and the closing fence
CodeOf(s, f) == SubSeq(s, CodeFrom(s, f), CloseAt(s, f) - 1)

\* what follows the closing fence, and the line ending right after it
AfterClose(s, f) ==
    IF StartsWith(s, CloseAt(s, f) + Len(LitFence), NL)
    THEN CloseAt(s, f) + Len(LitFence) + 1
    ELSE CloseAt(s, f) + Len(LitFence)

HeadingThenFence == <<"#", " ", "h">> \o NL \o LitFence

\* C20: for a fence line followed later by another fence, code_block
\* returns a CodeBlock whose code is the text between the end of the fence
\* line and the next fence, wherever on a line that one is, and consumes the
\* closing fence; in a section the block is that CodeBlock, and lines of the
\* code that start with "#", "- ", "@" or "---" make no heading, list
\* item, rule or paragraph: a document that ends with the closing fence has
\* the one section and the one block.
C20_CodeIsTextBetweenFences ==
    /\ (called = "code_block" /\ Fenced(input, 1)) =>
           /\ result.ok
           /\ result.val.kind = "CodeBlock"
           /\ result.val.code = CodeOf(input, 1)
           /\ result.rest = AfterClose(input, 1)
    /\ (Returned /\ StartsWith(input, 1, HeadingThenFence)
                 /\ Fenced(input, Len(HeadingThenFence) - 2)) =>
           /\ Len(result.doc.sections) >= 1
           /\ Len(result.doc.sections[1].content) >= 1
           /\ result.doc.sections[1].content[1].kind = "CodeBlock"
           /\ result.doc.sections[1].content[1].code
                  = CodeOf(input, Len(HeadingThenFence) - 2)
           /\ AfterClose(input, Len(HeadingThenFence) - 2) = Len(input) + 1 =>
                  /\ Len(result.doc.sections) = 1
                  /\ Len(result.doc.sections[1].content) = 1

\* a code block in a section, whose code holds a heading line and a rule
\* line
C20_Witness ==
    /\ Returned
    /\ StartsWith(input, 1, HeadingThenFence)
    /\ Fenced(input, Len(HeadingThenFence) - 2)
    /\ Len(result.doc.sections) = 1
    /\ Len(result.doc.sections[1].content) = 1
    /\ Contains(result.doc.sections[1].content[1].code, <<"#", " ", "h">> \o NL)
    /\ Contains(result.doc.sections[1].content[1].code, LitRule \o NL)

(***************************************************************************)
(* SpecList: runs of item lines "- a", "-<tab>b ", "- " and "- e<CR>",     *)
(* the line "-c" that is no list item, a prose line, a blank line and an   *)
(* item without its line ending, given to bullet_list().                   *)
(***************************************************************************)
ListPieces ==
    { <<"-", " ", "a">> \o NL, <<"-", "\t", "b", " ">> \o NL, <<"-", " ">> \o NL,
      <<"-", " ", "e", "\r">> \o NL, <<"-", "c">> \o NL, <<"x">> \o NL, NL,
      <<"-", " ", "d">> }

AppendListPiece == AppendFrom(ListPieces, MaxPieces)

CallBulletList == Call("bullet_list", bullet_list(input, 1))

NextList == AppendListPiece \/ CallBulletList

SpecList == Init /\ [][NextList]_vars

\* the place of the last line ending of s, 0 without one
LastNL(s) ==
    IF \A k \in 1..Len(s) : s[k] # "\n" THEN 0
    ELSE Max({k \in 1..Len(s) : s[k] = "\n"})

\* the lines of s that have their line ending
CompleteLines(s) == Lines(SubSeq(s, 1, LastNL(s)))

\* a line of the form "-", one or more spaces or tabs, text
IsListLine(line) ==
    /\ Len(line) >= 2
    /\ line[1] = "-"
    /\ IsSpace(line[2])

\* the number of list lines that start s
ListRun(s) == SkipWhile(CompleteLines(s), 1, IsListLine) - 1

\* the length of the first n lines of s, line endings included
RECURSIVE LengthOf(_, _)
LengthOf(lines, n) ==
    IF n = 0 THEN 0 ELSE Len(lines[n]) + 1 + LengthOf(lines, n - 1)

ListCalled == called = "bullet_list"

\* C21: bullet_list fails when the input does not start with a list line;
\* otherwise it consumes the maximal run of list lines that starts the
\* input, and no more, and returns one BulletList whose k-th item is the
\* trimmed text of the k-th line of the run.
C21_ListIsMaximalRun ==
    ListCalled =>
        /\ result.ok <=> ListRun(input) >= 1
        /\ result.ok =>
               /\ result.val.kind = "BulletList"
               /\ result.val.items =
                      [k \in 1..ListRun(input) |->
                           trim(Tail(CompleteLines(input)[k]))]
               /\ result.rest =
                      1 + LengthOf(CompleteLines(input), ListRun(input))

\* three item lines followed by a blank line
C21_Witness ==
    /\ ListCalled
    /\ result.ok
    /\ Len(result.val.items) = 3
    /\ result.val.items[1] = <<"a">>
    /\ result.val.items[2] = <<"b">>
    /\ result.rest = Len(input)
    /\ input[Len(input)] = "\n"

\* the claim of each attestation is the first line of the paragraph it was
\* found in
ClaimsFirstLines(attestations, found) ==
    /\ Len(attestations) = Len(found)
    /\ \A j \in 1..Len(found) :
           attestations[j].claim = Lines(found[j].text)[1]

\* C22: the claim of each Attestation is the first line of the text of its
\* Paragraph, verbatim, wherever in the paragraph "Attestation:" occurs.
C22_ClaimIsFirstLine ==
    Returned =>
        \A k \in 1..Len(result.doc.sections) :
            ClaimsFirstLines(result.doc.sections[k].attestations,
                             SelectSeq(result.doc.sections[k].content,
                                       HasKeyword))

\* a paragraph of two lines with the keyword on the second: the claim is
\* the first line, which does not hold the keyword
C22_Witness ==
    /\ Returned
    /\ Len(result.doc.sections) = 1
    /\ Len(result.doc.sections[1].content) = 1
    /\ Len(Lines(result.doc.sections[1].content[1].text)) = 2
    /\ Len(result.doc.sections[1].attestations) = 1
    /\ result.doc.sections[1].attestations[1].claim = <<"x">>

\* the first "Attestation:" of text is written in bold, "**Attestation:**"
BoldKeyword(text) ==
    /\ Find(text, 1, LitAttestation) > 2
    /\ StartsWith(text, Find(text, 1, LitAttestation) - 2, LitBoldAttestation)

IsBoldAttestation(b) == HasKeyword(b) /\ BoldKeyword(b.text)

\* the paragraphs with the keyword in bold are attested as MUST
BoldIsMust(attestations, found) ==
    /\ Len(attestations) = Len(found)
    /\ \A j \in 1..Len(found) :
           BoldKeyword(found[j].text) => attestations[j].requirement = "MUST"

\* C27: when the first "Attestation:" of a paragraph is written in bold,
\* as "**Attestation:**", the requirement of its Attestation is MUST,
\* whatever modal word follows.
C27_BoldKeywordIsMust ==
    Returned =>
        \A k \in 1..Len(result.doc.sections) :
            BoldIsMust(result.doc.sections[k].attestations,
                       SelectSeq(result.doc.sections[k].content, HasKeyword))

\* "**Attestation:** *Should*" attested as MUST
C27_Witness ==
    /\ Returned
    /\ Len(result.doc.sections) = 1
    /\ Len(result.doc.sections[1].content) = 1
    /\ IsBoldAttestation(result.doc.sections[1].content[1])
    /\ Contains(result.doc.sections[1].content[1].text,
                LitBoldAttestation \o <<" ">> \o LitShould)
    /\ Len(result.doc.sections[1].attestations) = 1
    /\ result.doc.sections[1].attestations[1].requirement = "MUST"

(***************************************************************************)
(* SpecExtract: a section whose blocks are put together from lines that    *)
(* hold the attestation keyword as a list item, as prose and, between      *)
(* fences, as code, and from lines that do not hold it; given to section() *)
(* and to the parser.                                                      *)
(***************************************************************************)
ExtractStarts == { <<"#", " ", "h">> \o NL }

ExtractPieces ==
    { <<"-", " ">> \o LitAttestation \o <<" ">> \o LitShould \o NL,
      LitAttestation \o <<" ">> \o LitCould \o NL,
      LitFence \o NL, LitRule \o NL, <<"-", " ", "a">> \o NL,
      <<"x">> \o NL, NL }

InitExtract == Start(ExtractStarts)

AppendExtractPiece == AppendFrom(ExtractPieces, MaxPieces)

NextExtract == AppendExtractPiece \/ CallSection \/ ParseString

SpecExtract == InitExtract /\ [][NextExtract]_vars

\* the blocks that the block rules give from position i on, the white space
\* after each skipped
RECURSIVE BlocksFrom(_, _)
BlocksFrom(s, i) ==
    IF ~content_block(s, i).ok THEN <<>>
    ELSE <<content_block(s, i).val>>
             \o BlocksFrom(s, SkipWhile(s, content_block(s, i).rest,
                                        IsMultispace))

\* the blocks of the section that starts s with a heading line
BlocksAfterHeading(s) ==
    BlocksFrom(s, SkipWhile(s, AfterLine(s, TextEnd(s)), IsMultispace))

HoldsKeyword(t) == \E j \in 1..Len(t) : StartsWith(t, j, LitAttestation)

\* a list with an item, or a code block with code, that holds the keyword
KeywordElsewhere(b) ==
    \/ /\ b.kind = "BulletList"
       /\ \E k \in 1..Len(b.items) : HoldsKeyword(b.items[k])
    \/ /\ b.kind = "CodeBlock"
       /\ HoldsKeyword(b.code)

\* the content of a section is the blocks parsed, and its attestations are
\* as many as its paragraphs that hold the keyword
Untouched(sec, blocks) ==
    /\ sec.content = blocks
    /\ Len(sec.attestations) = Count(blocks, HasKeyword)

\* C23: the content of a Section is the sequence of blocks parsed after its
\* heading, the same blocks in the same order with the same text, whether
\* or not attestations were found, and only its Paragraph blocks yield
\* attestations: "Attestation:" in a list item or in the code of a code
\* block yields none.
C23_ExtractionChangesNothing ==
    /\ (SectionCalled /\ result.ok) =>
           Untouched(result.val, BlocksAfterHeading(input))
    /\ Returned =>
           \A k \in 1..Len(result.doc.sections) :
               Len(result.doc.sections[k].attestations)
                   = Count(result.doc.sections[k].content, HasKeyword)

\* a section of a list that holds the keyword and of a paragraph that holds
\* it: one attestation, both blocks kept
C23_Witness ==
    /\ SectionCalled
    /\ result.ok
    /\ Len(result.val.content) = 2
    /\ Count(result.val.content, KeywordElsewhere) = 1
    /\ Count(result.val.content, HasKeyword) = 1
    /\ Len(result.val.attestations) = 1
    /\ result.val.attestations[1].requirement = "COULD"

BlockKinds == {"Paragraph", "BulletList", "CodeBlock", "HorizontalRule"}

\* the fields that no rule fills in, in a section
Unpopulated(sec) ==
    /\ sec.line_number = 0
    /\ \A j \in 1..Len(sec.attestations) : sec.attestations[j].reference = None
    /\ \A j \in 1..Len(sec.content) :
           /\ sec.content[j].kind \in BlockKinds
           /\ sec.content[j].kind # "Table"

\* C24: in every Document, and in every Section that section() returns,
\* line_number is 0, every Attestation has no reference, and no block is a
\* Table.
C24_ReservedFieldsUnpopulated ==
    /\ Returned =>
           \A k \in 1..Len(result.doc.sections) :
               Unpopulated(result.doc.sections[k])
    /\ (SectionCalled /\ result.ok) => Unpopulated(result.val)

\* a section of three blocks of three kinds, one of them attested
C24_Witness ==
    /\ Returned
    /\ Len(result.doc.sections) = 1
    /\ Len(result.doc.sections[1].content) = 3
    /\ Count(result.doc.sections[1].content, IsParagraph) = 1
    /\ Count(result.doc.sections[1].content, IsRule) = 1
    /\ Len(result.doc.sections[1].attestations) = 1
    /\ result.doc.sections[1].line_number = 0

(***************************************************************************)
(* SpecAny: documents made of any of the lines of Spec and of SpecSection, *)
(* malformed directives and unclosed fences among them.                    *)
(***************************************************************************)
MaxAnyPieces == 3

AnyPieces == DocPieces \cup SectionPieces

AppendAnyPiece == AppendFrom(AnyPieces, MaxAnyPieces)

NextAny == AppendAnyPiece \/ ParseString

SpecAny == Init /\ [][NextAny]_vars

\* C25: parse_a2ml_string returns Ok(Document) for every input, never the
\* ParseError of its Err arm; the text that no rule took is the raw of the
\* Document, the rest of the input from where parsing stopped, and a
\* malformed directive at the start leaves all the text in raw.
C25_AlwaysOk ==
    Parsed =>
        /\ result.ok
        /\ document(input).ok
        /\ result.doc.raw = SubSeq(input, document(input).rest, Len(input))
        /\ MalformedDirectiveAtStart(input) =>
               result.doc.raw = SubSeq(input, FirstText(input), Len(input))
        /\ (~HasContent(result.doc) /\ FirstText(input) <= Len(input)) =>
               result.doc.raw # <<>>

\* a malformed directive after a blank line: Ok, with the directive in raw
C25_Witness ==
    /\ Parsed
    /\ result.ok
    /\ MalformedDirectiveAtStart(input)
    /\ FirstText(input) > 1
    /\ result.doc.raw # <<>>
    /\ ~HasContent(result.doc)

\* s is made of prose lines "x" and blank lines, each with its line ending,
\* an "x" line among them
ProseAndBlankLines(s) ==
    /\ s # <<>>
    /\ s[Len(s)] = "\n"
    /\ \A k \in 1..Len(Lines(s)) : Lines(s)[k] \in {<<>>, <<"x">>}
    /\ \E k \in 1..Len(Lines(s)) : Lines(s)[k] = <<"x">>

\* two prose lines of s have a blank line between them
BlankLineBetween(s) ==
    \E j, k, l \in 1..Len(Lines(s)) :
        /\ j < k /\ k < l
        /\ Lines(s)[j] = <<"x">>
        /\ Lines(s)[k] = <<>>
        /\ Lines(s)[l] = <<"x">>

\* C26: a blank line does not end a paragraph. paragraph() takes a run of
\* prose lines and blank lines whole, and its text is the run trimmed, the
\* blank lines between the prose lines kept; under a heading the run is one
\* Paragraph block.
C26_BlankLineStaysInParagraph ==
    /\ (called = "paragraph" /\ ProseAndBlankLines(input)) =>
           result = Ok(Len(input) + 1, Paragraph(trim(input)))
    /\ (Returned /\ StartsWith(input, 1, <<"#", " ", "h">> \o NL)
                 /\ ProseAndBlankLines(SubSeq(input, 5, Len(input)))) =>
           /\ Len(result.doc.sections) = 1
           /\ result.doc.sections[1].content
                  = <<Paragraph(trim(SubSeq(input, 5, Len(input))))>>

\* two prose lines with a blank line between them: one Paragraph whose text
\* holds the blank line
C26_Witness ==
    /\ Returned
    /\ BlankLineBetween(input)
    /\ Len(result.doc.sections) = 1
    /\ Len(result.doc.sections[1].content) = 1
    /\ result.doc.sections[1].content[1].kind = "Paragraph"
    /\ Find(result.doc.sections[1].content[1].text, 1, NL \o NL) # 0

IsCodeBlock(b) == b.kind = "CodeBlock"

\* the text of the fence line that starts at f, after the fence
TagOf(s, f) == SubSeq(s, f + Len(LitFence), Find(s, f, NL) - 1)

\* C29: every CodeBlock has a language that is present. code_block() gives
\* Some of the trimmed text that follows the opening fence on its line, and
\* Some("") when nothing follows it; no CodeBlock of a Document has the
\* language None.
C29_LanguageIsPresent ==
    /\ (called = "code_block" /\ result.ok) =>
           /\ result.val.language # None
           /\ result.val.language = Some(trim(TagOf(input, 1)))
           /\ StartsWith(input, 1, LitFence \o NL) =>
                  result.val.language = Some(<<>>)
    /\ Returned =>
           \A k \in 1..Len(BlocksOf(result.doc.sections)) :
               IsCodeBlock(BlocksOf(result.doc.sections)[k]) =>
                   /\ BlocksOf(result.doc.sections)[k].language # None
                   /\ Len(BlocksOf(result.doc.sections)[k].language) = 1

\* a fence line with no tag, closed later: the language is Some("")
C29_Witness ==
    /\ called = "code_block"
    /\ result.ok
    /\ StartsWith(input, 1, LitFence \o NL)
    /\ result.val.language = Some(<<>>)
    /\ result.val.code # <<>>

(***************************************************************************)
(* SpecLastLine: documents made of complete lines and then one last line   *)
(* that has no line ending: a heading, a list item, a prose line, a rule,  *)
(* a reference record, a blank line, an indented line, "@end" or a fence.  *)
(***************************************************************************)
MaxLines == 3

LinePieces ==
    { <<"#", " ", "h">> \o NL, <<"x">> \o NL, <<"-", " ", "a">> \o NL,
      <<"[", "1", "]", " ", "r">> \o NL, LitRequires \o NL, LitRefs \o NL,
      LitEnd \o NL, LitFence \o NL }

LastLines ==
    { <<"#", " ", "h">>, <<"-", " ", "a">>, <<"x">>, LitRule,
      <<"[", "1", "]", " ", "r">>, <<" ">>, <<" ", "x">>, LitEnd, LitFence }

AppendLine == AppendFrom(LinePieces, MaxLines)

\* the last line, after which nothing is appended
AppendLastLine ==
    /\ called = "none"
    /\ pieces <= MaxLines
    /\ \E p \in LastLines : input' = input \o p
    /\ pieces' = MaxLines + 1
    /\ UNCHANGED <<called, result, path, validation>>

NextLastLine == AppendLine \/ AppendLastLine \/ ParseString

SpecLastLine == Init /\ [][NextLastLine]_vars

\* the place after the last "\n" of s, 1 when there is none
RECURSIVE LastLineFrom(_, _)
LastLineFrom(s, i) ==
    IF Find(s, i, NL) = 0 THEN i ELSE LastLineFrom(s, Find(s, i, NL) + 1)

\* the last line of s, when s does not end with "\n"
LastLine(s) == SubSeq(s, LastLineFrom(s, 1), Len(s))

Unterminated(s) == s # <<>> /\ s[Len(s)] # "\n"

\* the place of the first character of the last line that is no white space
LastLineText(s) == SkipWhile(s, LastLineFrom(s, 1), IsMultispace)

Shrinks(r, s, i) == r.ok => (i < r.rest /\ r.rest <= Len(s) + 1)

\* C30: at every position of every input, each rule that a repetition
\* repeats (section, content block with its white space, paragraph line,
\* list item, requirement item, reference) consumes at least one character
\* when it succeeds, so each turn of a loop leaves a shorter input; the
\* loops of many0 never meet an item that consumed nothing, and the parse
\* ends with a Document.
C30_EveryIterationConsumes ==
    /\ Parsed => \A i \in 1..(Len(input) + 1) :
           /\ Shrinks(section(input, i), input, i)
           /\ Shrinks(content_block_ws(input, i), input, i)
           /\ Shrinks(paragraph_line_nl(input, i), input, i)
           /\ Shrinks(list_item(input, i), input, i)
           /\ Shrinks(requires_item(input, i), input, i)
           /\ Shrinks(reference(input, i), input, i)
           /\ many0_section(input, i, <<>>).ok
           /\ many0_content_block(input, i, <<>>).ok
    /\ Parsed => (result.ok /\ Len(result.doc.raw) <= Len(input))

\* a parse whose loops turned: two sections, the first one with content
C30_Witness ==
    /\ Returned
    /\ Len(result.doc.sections) = 2
    /\ result.doc.sections[1].content # <<>>
    /\ result.doc.raw = <<>>

====
